---- MODULE Spec2Model ----
(***************************************************************************)
(* A model of the OpenPipe Python client: the shared convenience layer     *)
(* (openpipe/shared.py: tag composition, the cache lookup and the report,  *)
(* each in a blocking and a suspending variant) and the generated model    *)
(* classes' to_dict / from_dict.                                           *)
(*                                                                         *)
(* Python values are tagged records, so that values of different Python    *)
(* types can be compared; a dict is a function from its keys; a mutable    *)
(* dict that the caller owns lives in `heap` and is named by a reference.  *)
(***************************************************************************)
EXTENDS Naturals, FiniteSets, Sequences, TLC

VARIABLES
    token,      \* configured_client.token
    heap,       \* the mutable mappings: the default arguments, the callers' options and tags
    inv,        \* the invocations of the four public operations, one per slot
    model       \* the model-class round trip in progress (SpecModels)

vars == <<token, heap, inv, model>>

----------------------------------------------------------------------------
(* Python values *)

PyNone == [t |-> "none"]
PyUnset == [t |-> "unset"]
PyBool(b) == [t |-> "bool", b |-> b]
PyStr(s) == [t |-> "str", s |-> s]
PyRef(id) == [t |-> "ref", id |-> id]
PyDict(d) == [t |-> "dict", d |-> d]

EmptyDict == <<>>

\* bool(v): None, UNSET, False, "" and an empty mapping are false
Truthy(h, v) ==
    CASE v.t = "none" -> FALSE
      [] v.t = "unset" -> FALSE
      [] v.t = "bool" -> v.b
      [] v.t = "str" -> v.s # ""
      [] v.t = "ref" -> DOMAIN h[v.id] # {}
      [] v.t = "dict" -> DOMAIN v.d # {}
      [] OTHER -> TRUE

\* dict.get(key, default)
DictGet(d, key, default) == IF key \in DOMAIN d THEN d[key] ELSE default

\* d[key] = value
DictSet(d, key, value) == (key :> value) @@ d

----------------------------------------------------------------------------
(* The exceptions of the model.  `except Exception` catches the classes    *)
(* derived from Exception; KeyboardInterrupt derives from BaseException    *)
(* only.                                                                   *)

ExceptionKinds == {"AttributeError", "TypeError", "ConnectError"}
BaseExceptionKinds == ExceptionKinds \cup {"KeyboardInterrupt"}

IsException(kind) == kind \in ExceptionKinds

----------------------------------------------------------------------------
(* Constants of shared.py *)

SdkName == "python"
version == "0.1.0"
BaseUrl == "https://app.openpipe.ai/api/v1"

Tokens == {"", "secret"}

----------------------------------------------------------------------------
(* The callers' data.  Every options mapping the callers pass is one of    *)
(* OptionObjs; its "tags" entry, when it is a mapping, is one of TagObjs.  *)

TagObjs == {"tEmpty", "tEnv", "tSpoof", "tSpoofVersion"}
OptionObjs == {"oNoCache", "oCache", "oCacheNull", "oCacheEmpty", "oCacheEnv",
               "oCacheSpoof", "oCacheSpoofVersion", "oCacheBad", "oEnv"}
DefaultObjs == {"defaultOptions", "defaultReqPayload"}
ObjIds == TagObjs \cup OptionObjs \cup DefaultObjs

InitHeap ==
    [id \in ObjIds |->
        CASE id = "tEmpty" -> EmptyDict
          [] id = "tEnv" -> ("env" :> PyStr("prod"))
          [] id = "tSpoof" -> ("$sdk" :> PyStr("spoof")) @@ ("env" :> PyStr("prod"))
          [] id = "tSpoofVersion" -> ("$sdk.version" :> PyStr("9.9.9"))
          [] id = "oNoCache" -> ("cache" :> PyBool(FALSE))
          [] id = "oCache" -> ("cache" :> PyBool(TRUE))
          [] id = "oCacheNull" -> ("cache" :> PyBool(TRUE)) @@ ("tags" :> PyNone)
          [] id = "oCacheEmpty" -> ("cache" :> PyBool(TRUE)) @@ ("tags" :> PyRef("tEmpty"))
          [] id = "oCacheEnv" -> ("cache" :> PyBool(TRUE)) @@ ("tags" :> PyRef("tEnv"))
          [] id = "oCacheSpoof" -> ("cache" :> PyBool(TRUE)) @@ ("tags" :> PyRef("tSpoof"))
          [] id = "oCacheSpoofVersion" ->
                ("cache" :> PyBool(TRUE)) @@ ("tags" :> PyRef("tSpoofVersion"))
          [] id = "oCacheBad" -> ("cache" :> PyBool(TRUE)) @@ ("tags" :> PyStr("x"))
          [] id = "oEnv" -> ("tags" :> PyRef("tEnv"))
          [] OTHER -> EmptyDict]

\* what a caller passes as openpipe_options: nothing, None, or a mapping
ArgOptions == {"OMITTED", "NONE"} \cup OptionObjs

\* the parameter's value: the shared default mapping when the argument is omitted
BindOptions(arg) == IF arg = "OMITTED" THEN "defaultOptions" ELSE arg

----------------------------------------------------------------------------
(* shared.py: the helpers *)

\* ReportJsonBodyTags.from_dict(tags): a new record holding a copy of the mapping
ReportJsonBodyTags_from_dict(d) == [t |-> "ReportJsonBodyTags", additional_properties |-> d]

\* tags["$sdk"] = "python"; tags["$sdk.version"] = version
SetReservedTags(d) ==
    DictSet(DictSet(d, "$sdk", PyStr(SdkName)), "$sdk.version", PyStr(version))

\* _get_tags with the caller's tags applied last: {"$sdk": ..., "$sdk.version": ..., **tags}
_get_tags_caller_last(h, o) ==
    IF o = "NONE"
    THEN [exc |-> "AttributeError", heap |-> h, tags |-> PyNone]
    ELSE LET got == DictGet(h[o], "tags", PyNone) IN
         IF ~Truthy(h, got)
         THEN [exc |-> "none", heap |-> h,
               tags |-> ReportJsonBodyTags_from_dict(SetReservedTags(EmptyDict))]
         ELSE IF got.t = "ref"
         THEN LET written == h[got.id] @@ SetReservedTags(EmptyDict) IN
              [exc |-> "none", heap |-> [h EXCEPT ![got.id] = written],
               tags |-> ReportJsonBodyTags_from_dict(written)]
         ELSE [exc |-> "TypeError", heap |-> h, tags |-> PyNone]

\* _get_tags with tags = openpipe_options.setdefault("tags", {}): the mapping it
\* writes is always the one the options hold
_get_tags_setdefault(h, o) ==
    IF o = "NONE"
    THEN [exc |-> "AttributeError", heap |-> h, tags |-> PyNone]
    ELSE LET got == DictGet(h[o], "tags", PyNone) IN
         IF "tags" \notin DOMAIN h[o]
         THEN [exc |-> "none",
               heap |-> [h EXCEPT ![o] = DictSet(@, "tags", PyDict(SetReservedTags(EmptyDict)))],
               tags |-> ReportJsonBodyTags_from_dict(SetReservedTags(EmptyDict))]
         ELSE IF got.t = "ref"
         THEN LET written == SetReservedTags(h[got.id]) IN
              [exc |-> "none", heap |-> [h EXCEPT ![got.id] = written],
               tags |-> ReportJsonBodyTags_from_dict(written)]
         ELSE [exc |-> "TypeError", heap |-> h, tags |-> PyNone]

\* _get_tags(openpipe_options): [exc, heap, tags]; the mapping it writes is the
\* caller's own when `openpipe_options.get("tags")` is truthy, a new one otherwise
_get_tags(h, o) ==
    IF o = "NONE"
    THEN [exc |-> "AttributeError", heap |-> h, tags |-> PyNone]
    ELSE LET got == DictGet(h[o], "tags", PyNone) IN
         IF ~Truthy(h, got)
         THEN [exc |-> "none", heap |-> h,
               tags |-> ReportJsonBodyTags_from_dict(SetReservedTags(EmptyDict))]
         ELSE IF got.t = "ref"
         THEN LET written == SetReservedTags(h[got.id]) IN
              [exc |-> "none", heap |-> [h EXCEPT ![got.id] = written],
               tags |-> ReportJsonBodyTags_from_dict(written)]
         ELSE [exc |-> "TypeError", heap |-> h, tags |-> PyNone]

\* _should_check_cache without the test of the token
_should_check_cache_no_token(h, tok, o) ==
    IF o = "NONE"
    THEN [exc |-> "AttributeError", value |-> PyNone]
    ELSE [exc |-> "none", value |-> DictGet(h[o], "cache", PyBool(FALSE))]

\* _should_check_cache(openpipe_options): [exc, value]
_should_check_cache(h, tok, o) ==
    IF tok = ""
    THEN [exc |-> "none", value |-> PyBool(FALSE)]
    ELSE IF o = "NONE"
    THEN [exc |-> "AttributeError", value |-> PyNone]
    ELSE [exc |-> "none", value |-> DictGet(h[o], "cache", PyBool(FALSE))]

\* a CheckCacheResponse200 carrying resp_payload
CheckCacheResponse200(resp_payload) == [t |-> "CheckCacheResponse200", resp_payload |-> resp_payload]

CacheHit == PyDict(("cache_status" :> PyStr("HIT")))

\* _process_cache_payload returning {"openpipe": ...} alone, the payload's keys lost
_process_cache_payload_keys_lost(payload) ==
    IF ~Truthy(EmptyDict, payload) \/ ~Truthy(EmptyDict, payload.resp_payload)
    THEN [exc |-> "none", value |-> PyNone]
    ELSE IF payload.resp_payload.t = "dict"
    THEN [exc |-> "none", value |-> PyDict(DictSet(EmptyDict, "openpipe", CacheHit))]
    ELSE [exc |-> "TypeError", value |-> PyNone]

\* _process_cache_payload(payload): [exc, value]
_process_cache_payload(payload) ==
    IF ~Truthy(EmptyDict, payload) \/ ~Truthy(EmptyDict, payload.resp_payload)
    THEN [exc |-> "none", value |-> PyNone]
    ELSE IF payload.resp_payload.t = "dict"
    THEN [exc |-> "none", value |-> PyDict(DictSet(payload.resp_payload.d, "openpipe", CacheHit))]
    ELSE [exc |-> "TypeError", value |-> PyNone]

----------------------------------------------------------------------------
(* An invocation of one of the four public operations *)

Ops == {"maybe_check_cache", "maybe_check_cache_async", "report", "report_async"}
CacheOps == {"maybe_check_cache", "maybe_check_cache_async"}
ReportOps == {"report", "report_async"}

IdleSlot ==
    [pc |-> "idle", op |-> "-", arg |-> "-", kwargs |-> {}, tokenAtCall |-> "",
     tagsIn |-> EmptyDict, composed |-> FALSE, tagsOut |-> PyNone, remoteCalls |-> 0,
     outcome |-> [exc |-> "none", payload |-> PyNone],
     result |-> PyNone, raised |-> "none", absorbed |-> "none"]

\* return value
Return(s, value) == [s EXCEPT !.pc = "returned", !.result = value]

\* an exception leaves the function
Raise(s, kind) == [s EXCEPT !.pc = "raised", !.raised = kind]

----------------------------------------------------------------------------
(* maybe_check_cache: up to the remote call, and from the remote call's end *)

maybe_check_cache_call(s0, h, tok, o) ==
    LET should == _should_check_cache(h, tok, o)
        s == [s0 EXCEPT !.tokenAtCall = tok]
    IN
    IF should.exc # "none"
    THEN [slot |-> Raise(s, should.exc), heap |-> h]
    ELSE IF ~Truthy(h, should.value)
    THEN [slot |-> Return(s, PyNone), heap |-> h]
    ELSE LET tags == _get_tags(h, o)
             c == [s EXCEPT !.composed = TRUE, !.tagsOut = tags.tags]
         IN  IF tags.exc = "none"
             THEN [slot |-> [c EXCEPT !.pc = "awaiting", !.remoteCalls = @ + 1],
                   heap |-> tags.heap]
             ELSE IF IsException(tags.exc)
             THEN [slot |-> Return([c EXCEPT !.absorbed = tags.exc], PyNone), heap |-> tags.heap]
             ELSE [slot |-> Raise(c, tags.exc), heap |-> tags.heap]

\* maybe_check_cache with `return _process_cache_payload(payload)` after the try statement
maybe_check_cache_return_unguarded(s, outcome) ==
    IF outcome.exc = "none"
    THEN LET processed == _process_cache_payload(outcome.payload) IN
         IF processed.exc = "none" THEN Return(s, processed.value) ELSE Raise(s, processed.exc)
    ELSE IF IsException(outcome.exc)
    THEN Return([s EXCEPT !.absorbed = outcome.exc], PyNone)
    ELSE Raise(s, outcome.exc)

maybe_check_cache_return(s, outcome) ==
    LET processed == IF outcome.exc = "none"
                     THEN _process_cache_payload(outcome.payload)
                     ELSE [exc |-> outcome.exc, value |-> PyNone]
    IN  IF processed.exc = "none"
        THEN Return(s, processed.value)
        ELSE IF IsException(processed.exc)
        THEN Return([s EXCEPT !.absorbed = processed.exc], PyNone)
        ELSE Raise(s, processed.exc)

----------------------------------------------------------------------------
(* maybe_check_cache_async: up to the await, and from the await's end *)

maybe_check_cache_async_call(s0, h, tok, o) ==
    LET should == _should_check_cache(h, tok, o)
        s == [s0 EXCEPT !.tokenAtCall = tok]
    IN
    IF should.exc # "none"
    THEN [slot |-> Raise(s, should.exc), heap |-> h]
    ELSE IF ~Truthy(h, should.value)
    THEN [slot |-> Return(s, PyNone), heap |-> h]
    ELSE LET tags == _get_tags(h, o)
             c == [s EXCEPT !.composed = TRUE, !.tagsOut = tags.tags]
         IN  IF tags.exc = "none"
             THEN [slot |-> [c EXCEPT !.pc = "awaiting", !.remoteCalls = @ + 1],
                   heap |-> tags.heap]
             ELSE IF IsException(tags.exc)
             THEN [slot |-> Return([c EXCEPT !.absorbed = tags.exc], PyNone), heap |-> tags.heap]
             ELSE [slot |-> Raise(c, tags.exc), heap |-> tags.heap]

\* maybe_check_cache_async returning payload.resp_payload as it came
maybe_check_cache_async_return_raw(s, outcome) ==
    IF outcome.exc = "none"
    THEN IF outcome.payload = PyNone THEN Return(s, PyNone)
         ELSE Return(s, outcome.payload.resp_payload)
    ELSE IF IsException(outcome.exc)
    THEN Return([s EXCEPT !.absorbed = outcome.exc], PyNone)
    ELSE Raise(s, outcome.exc)

maybe_check_cache_async_return(s, outcome) ==
    LET processed == IF outcome.exc = "none"
                     THEN _process_cache_payload(outcome.payload)
                     ELSE [exc |-> outcome.exc, value |-> PyNone]
    IN  IF processed.exc = "none"
        THEN Return(s, processed.value)
        ELSE IF IsException(processed.exc)
        THEN Return([s EXCEPT !.absorbed = processed.exc], PyNone)
        ELSE Raise(s, processed.exc)

----------------------------------------------------------------------------
(* report and report_async *)

\* the keyword fields api_report.ReportJsonBody accepts besides tags
ReportFields == {"requested_at", "received_at", "req_payload", "resp_payload",
                 "status_code", "error_message"}

\* api_report.ReportJsonBody(**kwargs, tags=tags): [exc, body]; a keyword given
\* twice or a keyword the class does not know is a TypeError
ReportJsonBody(kwargs, tags) ==
    IF "tags" \in kwargs \/ ~(kwargs \subseteq ReportFields)
    THEN [exc |-> "TypeError", body |-> PyNone]
    ELSE [exc |-> "none", body |-> [t |-> "ReportJsonBody", fields |-> kwargs, tags |-> tags]]

\* report with the tags composed before the try statement
report_call_tags_unguarded(s, h, o, kwargs) ==
    LET tags == _get_tags(h, o)
        c == [s EXCEPT !.composed = TRUE, !.tagsOut = tags.tags]
        body == ReportJsonBody(kwargs, tags.tags)
    IN  IF tags.exc # "none"
        THEN [slot |-> Raise(c, tags.exc), heap |-> tags.heap]
        ELSE IF body.exc = "none"
        THEN [slot |-> [c EXCEPT !.pc = "awaiting", !.remoteCalls = @ + 1],
              heap |-> tags.heap]
        ELSE [slot |-> Return([c EXCEPT !.absorbed = body.exc], PyNone), heap |-> tags.heap]

report_call(s, h, o, kwargs) ==
    LET tags == _get_tags(h, o)
        c == [s EXCEPT !.composed = TRUE, !.tagsOut = tags.tags]
        body == IF tags.exc = "none"
                THEN ReportJsonBody(kwargs, tags.tags)
                ELSE [exc |-> tags.exc, body |-> PyNone]
    IN  IF body.exc = "none"
        THEN [slot |-> [c EXCEPT !.pc = "awaiting", !.remoteCalls = @ + 1],
              heap |-> tags.heap]
        ELSE IF IsException(body.exc)
        THEN [slot |-> Return([c EXCEPT !.absorbed = body.exc], PyNone), heap |-> tags.heap]
        ELSE [slot |-> Raise(c, body.exc), heap |-> tags.heap]

\* report sending the report once more when the remote call failed
report_return_retry(s, outcome) ==
    IF outcome.exc = "none"
    THEN Return(s, PyNone)
    ELSE IF IsException(outcome.exc)
    THEN IF s.remoteCalls < 2
         THEN [s EXCEPT !.remoteCalls = @ + 1]
         ELSE Return([s EXCEPT !.absorbed = outcome.exc], PyNone)
    ELSE Raise(s, outcome.exc)

report_return(s, outcome) ==
    IF outcome.exc = "none"
    THEN Return(s, PyNone)
    ELSE IF IsException(outcome.exc)
    THEN Return([s EXCEPT !.absorbed = outcome.exc], PyNone)
    ELSE Raise(s, outcome.exc)

report_async_call(s, h, o, kwargs) ==
    LET tags == _get_tags(h, o)
        c == [s EXCEPT !.composed = TRUE, !.tagsOut = tags.tags]
        body == IF tags.exc = "none"
                THEN ReportJsonBody(kwargs, tags.tags)
                ELSE [exc |-> tags.exc, body |-> PyNone]
    IN  IF body.exc = "none"
        THEN [slot |-> [c EXCEPT !.pc = "awaiting", !.remoteCalls = @ + 1],
              heap |-> tags.heap]
        ELSE IF IsException(body.exc)
        THEN [slot |-> Return([c EXCEPT !.absorbed = body.exc], PyNone), heap |-> tags.heap]
        ELSE [slot |-> Raise(c, body.exc), heap |-> tags.heap]

report_async_return(s, outcome) ==
    IF outcome.exc = "none"
    THEN Return(s, PyNone)
    ELSE IF IsException(outcome.exc)
    THEN Return([s EXCEPT !.absorbed = outcome.exc], PyNone)
    ELSE Raise(s, outcome.exc)

----------------------------------------------------------------------------
(* api_client/models: the generated classes.  to_dict gives the mapping, a  *)
(* function from its keys; from_dict gives [exc, key, value]: the instance, *)
(* or the exception that d.pop(key) or a nested decode raised.              *)

Decoded(x) == [exc |-> "none", key |-> "", value |-> x]
DecodeError(kind, key) == [exc |-> kind, key |-> key, value |-> PyNone]

\* d.pop(key) of a key the mapping lacks
MissingField == "KeyError"

\* CreateChatCompletionJsonBodyFunctionsItemParameters: a free-form schema object
Parameters(d) == [t |-> "Parameters", additional_properties |-> d]
Parameters_to_dict(x) == x.additional_properties
Parameters_from_dict(v) ==
    IF v.t = "dict" THEN Decoded(Parameters(v.d)) ELSE DecodeError("AttributeError", "")

\* CreateChatCompletionJsonBodyMessagesItemType1ContentType1ItemType0ImageUrl
ImageUrl(url) == [t |-> "ImageUrl", url |-> url]
ImageUrl_to_dict(x) == ("url" :> x.url)
ImageUrl_from_dict(v) ==
    IF v.t # "dict" THEN DecodeError("AttributeError", "")
    ELSE IF "url" \notin DOMAIN v.d THEN DecodeError(MissingField, "url")
    ELSE Decoded(ImageUrl(v.d["url"]))

\* CreateChatCompletionJsonBodyMessagesItemType1ContentType1ItemType0Type, an Enum
TypeValues == {"image_url"}
TypeMember(value) == [t |-> "enum", value |-> value]
Type_of(v) ==
    IF v.t = "str" /\ v.s \in TypeValues
    THEN Decoded(TypeMember(v.s))
    ELSE DecodeError("ValueError", "")

\* CreateChatCompletionJsonBodyFunctionsItem
FunctionsItem(name, parameters, description) ==
    [cls |-> "FunctionsItem", name |-> name, parameters |-> parameters,
     description |-> description]

\* to_dict writing description whether set or not
FunctionsItem_to_dict_always(x) ==
    DictSet(("name" :> x.name) @@ ("parameters" :> PyDict(Parameters_to_dict(x.parameters))),
            "description", x.description)

FunctionsItem_to_dict(x) ==
    LET field_dict == ("name" :> x.name)
                      @@ ("parameters" :> PyDict(Parameters_to_dict(x.parameters)))
    IN  IF x.description # PyUnset
        THEN DictSet(field_dict, "description", x.description)
        ELSE field_dict

\* from_dict with d.pop("parameters", {}) in place of d.pop("parameters")
FunctionsItem_from_dict_default(src_dict) ==
    IF "name" \notin DOMAIN src_dict THEN DecodeError(MissingField, "name")
    ELSE LET parameters == Parameters_from_dict(DictGet(src_dict, "parameters", PyDict(EmptyDict)))
         IN  IF parameters.exc # "none" THEN parameters
             ELSE Decoded(FunctionsItem(src_dict["name"], parameters.value,
                                        DictGet(src_dict, "description", PyUnset)))

FunctionsItem_from_dict(src_dict) ==
    IF "name" \notin DOMAIN src_dict THEN DecodeError(MissingField, "name")
    ELSE IF "parameters" \notin DOMAIN src_dict THEN DecodeError(MissingField, "parameters")
    ELSE LET parameters == Parameters_from_dict(src_dict["parameters"]) IN
         IF parameters.exc # "none" THEN parameters
         ELSE Decoded(FunctionsItem(src_dict["name"], parameters.value,
                                    DictGet(src_dict, "description", PyUnset)))

\* CreateChatCompletionJsonBodyReqPayloadMessagesItemType2ToolCallsItemFunction
ToolCallsItemFunction(name, arguments) ==
    [cls |-> "ToolCallsItemFunction", name |-> name, arguments |-> arguments]

ToolCallsItemFunction_to_dict(x) == ("name" :> x.name) @@ ("arguments" :> x.arguments)

ToolCallsItemFunction_from_dict(src_dict) ==
    IF "name" \notin DOMAIN src_dict THEN DecodeError(MissingField, "name")
    ELSE IF "arguments" \notin DOMAIN src_dict THEN DecodeError(MissingField, "arguments")
    ELSE Decoded(ToolCallsItemFunction(src_dict["name"], src_dict["arguments"]))

\* CreateChatCompletionJsonBodyToolChoiceType2Function
ToolChoiceType2Function(name) == [cls |-> "ToolChoiceType2Function", name |-> name]

ToolChoiceType2Function_to_dict(x) == ("name" :> x.name)

ToolChoiceType2Function_from_dict(src_dict) ==
    IF "name" \notin DOMAIN src_dict THEN DecodeError(MissingField, "name")
    ELSE Decoded(ToolChoiceType2Function(src_dict["name"]))

\* CreateChatCompletionJsonBodyMessagesItemType1ContentType1ItemType0
ContentType1ItemType0(type, image_url) ==
    [cls |-> "ContentType1ItemType0", type |-> type, image_url |-> image_url]

ContentType1ItemType0_to_dict(x) ==
    ("type" :> PyStr(x.type.value)) @@ ("image_url" :> PyDict(ImageUrl_to_dict(x.image_url)))

ContentType1ItemType0_from_dict(src_dict) ==
    IF "type" \notin DOMAIN src_dict THEN DecodeError(MissingField, "type")
    ELSE LET type == Type_of(src_dict["type"]) IN
         IF type.exc # "none" THEN type
         ELSE IF "image_url" \notin DOMAIN src_dict THEN DecodeError(MissingField, "image_url")
         ELSE LET image_url == ImageUrl_from_dict(src_dict["image_url"]) IN
              IF image_url.exc # "none" THEN image_url
              ELSE Decoded(ContentType1ItemType0(type.value, image_url.value))

Classes == {"FunctionsItem", "ToolCallsItemFunction", "ToolChoiceType2Function",
            "ContentType1ItemType0"}

to_dict(x) ==
    CASE x.cls = "FunctionsItem" -> FunctionsItem_to_dict(x)
      [] x.cls = "ToolCallsItemFunction" -> ToolCallsItemFunction_to_dict(x)
      [] x.cls = "ToolChoiceType2Function" -> ToolChoiceType2Function_to_dict(x)
      [] x.cls = "ContentType1ItemType0" -> ContentType1ItemType0_to_dict(x)

from_dict(cls, src_dict) ==
    CASE cls = "FunctionsItem" -> FunctionsItem_from_dict(src_dict)
      [] cls = "ToolCallsItemFunction" -> ToolCallsItemFunction_from_dict(src_dict)
      [] cls = "ToolChoiceType2Function" -> ToolChoiceType2Function_from_dict(src_dict)
      [] cls = "ContentType1ItemType0" -> ContentType1ItemType0_from_dict(src_dict)

(* The instances a caller constructs, and the mappings that arrive decoded  *)
(* from JSON: any subset of a class's keys, each with a value of its type   *)
(* (the type key also with a value the enumeration does not have).          *)

NameValues == {PyStr("get_weather"), PyStr("")}
ParameterValues == {EmptyDict, ("type" :> PyStr("object"))}
DescriptionValues == {PyStr("Looks up the weather"), PyStr("")}
ArgumentValues == {PyStr("{}"), PyStr("not json")}
UrlValues == {PyStr("https://example.org/a.png"), PyStr("")}

Instances ==
    {FunctionsItem(n, Parameters(p), d) :
        n \in NameValues, p \in ParameterValues, d \in DescriptionValues \cup {PyUnset}}
    \cup {ToolCallsItemFunction(n, a) : n \in NameValues, a \in ArgumentValues}
    \cup {ToolChoiceType2Function(n) : n \in NameValues}
    \cup {ContentType1ItemType0(TypeMember(v), ImageUrl(u)) : v \in TypeValues, u \in UrlValues}

KeyValues(cls, key) ==
    CASE key = "name" -> NameValues
      [] key = "parameters" -> {PyDict(p) : p \in ParameterValues}
      [] key = "description" -> DescriptionValues
      [] key = "arguments" -> ArgumentValues
      [] key = "type" -> {PyStr(v) : v \in TypeValues} \cup {PyStr("video")}
      [] key = "image_url" -> {PyDict(EmptyDict)} \cup {PyDict(("url" :> u)) : u \in UrlValues}

ClassKeys(cls) ==
    CASE cls = "FunctionsItem" -> {"name", "parameters", "description"}
      [] cls = "ToolCallsItemFunction" -> {"name", "arguments"}
      [] cls = "ToolChoiceType2Function" -> {"name"}
      [] cls = "ContentType1ItemType0" -> {"type", "image_url"}

Mappings(cls) ==
    UNION {{m \in [keys -> UNION {KeyValues(cls, k) : k \in keys}] :
                \A k \in keys : m[k] \in KeyValues(cls, k)} :
           keys \in SUBSET ClassKeys(cls)}

IdleModel ==
    [pc |-> "idle", cls |-> "-", instance |-> PyNone, mapping |-> EmptyDict,
     decoded |-> Decoded(PyNone)]

\* cls(**fields)
Construct(x) ==
    /\ model.pc = "idle"
    /\ model' = [IdleModel EXCEPT !.pc = "constructed", !.cls = x.cls, !.instance = x]
    /\ UNCHANGED <<token, heap, inv>>

\* x.to_dict()
ToDict ==
    /\ model.pc = "constructed"
    /\ model' = [model EXCEPT !.pc = "encoded", !.mapping = to_dict(model.instance)]
    /\ UNCHANGED <<token, heap, inv>>

\* a mapping of the API arrives for cls
Receive(cls, m) ==
    /\ model.pc = "idle"
    /\ model' = [IdleModel EXCEPT !.pc = "received", !.cls = cls, !.mapping = m]
    /\ UNCHANGED <<token, heap, inv>>

\* cls.from_dict(mapping)
FromDict ==
    /\ model.pc \in {"encoded", "received"}
    /\ model' = [model EXCEPT !.pc = "decoded",
                              !.decoded = from_dict(model.cls, model.mapping)]
    /\ UNCHANGED <<token, heap, inv>>

Discard ==
    /\ model.pc = "decoded"
    /\ model' = IdleModel
    /\ UNCHANGED <<token, heap, inv>>

NextModels ==
    \/ \E x \in Instances : Construct(x)
    \/ ToDict
    \/ \E cls \in Classes : \E m \in Mappings(cls) : Receive(cls, m)
    \/ FromDict
    \/ Discard

----------------------------------------------------------------------------
(* The remote API and the callers *)

MaxInvocations == 2
Slots == 1 .. MaxInvocations

\* what the remote call raises: a network error, or the interrupt of the wait
RemoteRaises == {"ConnectError", "KeyboardInterrupt"}

RespPayloads ==
    {PyUnset, PyNone, PyDict(EmptyDict), PyDict(("foo" :> PyStr("bar"))),
     PyDict(("foo" :> PyStr("bar")) @@ ("openpipe" :> PyStr("stale"))), PyStr("x")}

\* check_cache's end: no parsed response (None), a response, or an exception
CheckCacheOutcomes ==
    {[exc |-> "none", payload |-> PyNone]}
    \cup {[exc |-> "none", payload |-> CheckCacheResponse200(p)] : p \in RespPayloads}
    \cup {[exc |-> k, payload |-> PyNone] : k \in RemoteRaises}

\* api_report's end: a response, which report drops, or an exception
ReportOutcomes ==
    {[exc |-> "none", payload |-> PyNone]}
    \cup {[exc |-> k, payload |-> PyNone] : k \in RemoteRaises}

\* the keyword fields a caller gives report
KwargSets == {{"status_code"}, {"status_code", "tags"}}

\* the caller-owned tags mapping of an options argument, as it is at the call
CallerTags(h, arg) ==
    IF arg = "NONE" THEN EmptyDict
    ELSE LET got == DictGet(h[BindOptions(arg)], "tags", PyNone) IN
         IF got.t = "ref" THEN h[got.id] ELSE EmptyDict

\* a new invocation takes the first free slot
FirstFree(i) == inv[i].pc = "idle" /\ \A j \in Slots : j < i => inv[j].pc # "idle"

Entered(op, arg, kwargs) ==
    [IdleSlot EXCEPT !.op = op, !.arg = arg, !.kwargs = kwargs,
                     !.tagsIn = CallerTags(heap, arg)]

Init ==
    /\ token = ""
    /\ heap = InitHeap
    /\ inv = [i \in Slots |-> IdleSlot]
    /\ model = IdleModel

\* configured_client.token = t
SetToken(t) ==
    /\ token' = t
    /\ UNCHANGED <<heap, inv, model>>

MaybeCheckCache(i, arg) ==
    /\ FirstFree(i)
    /\ LET r == maybe_check_cache_call(Entered("maybe_check_cache", arg, {}), heap, token,
                                       BindOptions(arg))
       IN  inv' = [inv EXCEPT ![i] = r.slot] /\ heap' = r.heap
    /\ UNCHANGED <<token, model>>

MaybeCheckCacheReturn(i, outcome) ==
    /\ inv[i].pc = "awaiting" /\ inv[i].op = "maybe_check_cache"
    /\ inv' = [inv EXCEPT ![i] = maybe_check_cache_return([@ EXCEPT !.outcome = outcome], outcome)]
    /\ UNCHANGED <<token, heap, model>>

MaybeCheckCacheAsync(i, arg) ==
    /\ FirstFree(i)
    /\ LET r == maybe_check_cache_async_call(Entered("maybe_check_cache_async", arg, {}), heap,
                                             token, BindOptions(arg))
       IN  inv' = [inv EXCEPT ![i] = r.slot] /\ heap' = r.heap
    /\ UNCHANGED <<token, model>>

MaybeCheckCacheAsyncReturn(i, outcome) ==
    /\ inv[i].pc = "awaiting" /\ inv[i].op = "maybe_check_cache_async"
    /\ inv' = [inv EXCEPT ![i] = maybe_check_cache_async_return([@ EXCEPT !.outcome = outcome], outcome)]
    /\ UNCHANGED <<token, heap, model>>

Report(i, arg, kwargs) ==
    /\ FirstFree(i)
    /\ LET r == report_call(Entered("report", arg, kwargs), heap, BindOptions(arg), kwargs)
       IN  inv' = [inv EXCEPT ![i] = r.slot] /\ heap' = r.heap
    /\ UNCHANGED <<token, model>>

ReportReturn(i, outcome) ==
    /\ inv[i].pc = "awaiting" /\ inv[i].op = "report"
    /\ inv' = [inv EXCEPT ![i] = report_return([@ EXCEPT !.outcome = outcome], outcome)]
    /\ UNCHANGED <<token, heap, model>>

ReportAsync(i, arg, kwargs) ==
    /\ FirstFree(i)
    /\ LET r == report_async_call(Entered("report_async", arg, kwargs), heap, BindOptions(arg),
                                  kwargs)
       IN  inv' = [inv EXCEPT ![i] = r.slot] /\ heap' = r.heap
    /\ UNCHANGED <<token, model>>

ReportAsyncReturn(i, outcome) ==
    /\ inv[i].pc = "awaiting" /\ inv[i].op = "report_async"
    /\ inv' = [inv EXCEPT ![i] = report_async_return([@ EXCEPT !.outcome = outcome], outcome)]
    /\ UNCHANGED <<token, heap, model>>

\* the caller has taken the result (or the exception): the slot is free again
Release(i) ==
    /\ inv[i].pc \in {"returned", "raised"}
    /\ inv' = [inv EXCEPT ![i] = IdleSlot]
    /\ UNCHANGED <<token, heap, model>>

\* One caller, one call at a time, while the token may be assigned at any moment
Next ==
    \/ \E t \in Tokens : SetToken(t)
    \/ \E arg \in ArgOptions : MaybeCheckCache(1, arg)
    \/ \E o \in CheckCacheOutcomes : MaybeCheckCacheReturn(1, o)
    \/ \E arg \in ArgOptions : MaybeCheckCacheAsync(1, arg)
    \/ \E o \in CheckCacheOutcomes : MaybeCheckCacheAsyncReturn(1, o)
    \/ \E arg \in ArgOptions, kw \in KwargSets : Report(1, arg, kw)
    \/ \E o \in ReportOutcomes : ReportReturn(1, o)
    \/ \E arg \in ArgOptions, kw \in KwargSets : ReportAsync(1, arg, kw)
    \/ \E o \in ReportOutcomes : ReportAsyncReturn(1, o)
    \/ Release(1)

Spec == Init /\ [][Next]_vars

\* Concurrent invocations (threads for the blocking variants, tasks for the
\* suspending ones), over fewer arguments and remote outcomes
ConcurrentArgs == {"OMITTED", "oCacheSpoof", "oCacheBad"}
ConcurrentCheckCacheOutcomes ==
    {[exc |-> "none", payload |-> PyNone],
     [exc |-> "none", payload |-> CheckCacheResponse200(PyDict(("foo" :> PyStr("bar"))))],
     [exc |-> "none", payload |-> CheckCacheResponse200(PyStr("x"))],
     [exc |-> "ConnectError", payload |-> PyNone],
     [exc |-> "KeyboardInterrupt", payload |-> PyNone]}
ConcurrentReportOutcomes ==
    {[exc |-> "none", payload |-> PyNone], [exc |-> "ConnectError", payload |-> PyNone],
     [exc |-> "KeyboardInterrupt", payload |-> PyNone]}
ConcurrentKwargSets == {{"status_code"}}

NextConcurrent ==
    \/ \E t \in Tokens : SetToken(t)
    \/ \E i \in Slots, arg \in ConcurrentArgs : MaybeCheckCache(i, arg)
    \/ \E i \in Slots, o \in ConcurrentCheckCacheOutcomes : MaybeCheckCacheReturn(i, o)
    \/ \E i \in Slots, arg \in ConcurrentArgs : MaybeCheckCacheAsync(i, arg)
    \/ \E i \in Slots, o \in ConcurrentCheckCacheOutcomes : MaybeCheckCacheAsyncReturn(i, o)
    \/ \E i \in Slots, arg \in ConcurrentArgs, kw \in ConcurrentKwargSets : Report(i, arg, kw)
    \/ \E i \in Slots, o \in ConcurrentReportOutcomes : ReportReturn(i, o)
    \/ \E i \in Slots, arg \in ConcurrentArgs, kw \in ConcurrentKwargSets : ReportAsync(i, arg, kw)
    \/ \E i \in Slots, o \in ConcurrentReportOutcomes : ReportAsyncReturn(i, o)
    \/ \E i \in Slots : Release(i)

SpecConcurrent == Init /\ [][NextConcurrent]_vars

SpecModels == Init /\ [][NextModels]_vars

----------------------------------------------------------------------------
(* The properties *)

Done(s) == s.pc \in {"returned", "raised"}

ReservedKeys == {"$sdk", "$sdk.version"}

\* options is a mapping whose cache entry is True
CacheIsTrue(arg) ==
    /\ arg # "NONE"
    /\ DictGet(heap[BindOptions(arg)], "cache", PyBool(FALSE)) = PyBool(TRUE)

\* the tags entry of the options argument (None when there is none)
TagsEntry(arg) ==
    IF arg = "NONE" THEN PyNone ELSE DictGet(heap[BindOptions(arg)], "tags", PyNone)

\* options is a mapping whose tags are absent, null or a mapping
TagsWellFormed(arg) == arg # "NONE" /\ TagsEntry(arg).t \in {"none", "ref"}

\* where a call fails with an exception derived from Exception
TagCompositionFails(s) == ~TagsWellFormed(s.arg)
BodyConstructionFails(s) == ReportJsonBody(s.kwargs, PyNone).exc \in ExceptionKinds
RemoteCallFails(s) == s.remoteCalls > 0 /\ Done(s) /\ s.outcome.exc \in ExceptionKinds
ProcessingFails(s) ==
    /\ s.remoteCalls > 0 /\ Done(s) /\ s.outcome.exc = "none"
    /\ _process_cache_payload(s.outcome.payload).exc \in ExceptionKinds

\* the wait for the remote call was interrupted (an exception not derived from Exception)
Interrupted(s) == s.remoteCalls > 0 /\ Done(s) /\ s.outcome.exc \notin ExceptionKinds \cup {"none"}

(* C1: maybe_check_cache and maybe_check_cache_async, called with a non-empty    *)
(* token and options.cache true, return None and raise nothing whenever tag      *)
(* composition, the remote check_cache call or the processing of its response    *)
(* fails with an exception (a class derived from Exception).                     *)
C1_CacheFailureAbsorbed ==
    \A i \in Slots :
        LET s == inv[i] IN
        (/\ s.op \in CacheOps /\ Done(s)
         /\ s.tokenAtCall # "" /\ CacheIsTrue(s.arg)
         /\ (TagCompositionFails(s) \/ RemoteCallFails(s) \/ ProcessingFails(s)))
        => (s.pc = "returned" /\ s.result = PyNone /\ s.raised = "none")

\* the response of a successful remote call could not be processed, and None came back
C1_Witness ==
    \E i \in Slots :
        /\ inv[i].op = "maybe_check_cache" /\ inv[i].pc = "returned"
        /\ inv[i].tokenAtCall # "" /\ CacheIsTrue(inv[i].arg)
        /\ ProcessingFails(inv[i])
        /\ inv[i].absorbed = "TypeError" /\ inv[i].result = PyNone

(* C2: report and report_async, for every options value (None included) and      *)
(* every set of keyword fields, return None and raise nothing, both when tag     *)
(* composition, the construction of the body or the remote call fails and when   *)
(* the call succeeds.                                                            *)
C2_ReportNeverRaises ==
    \A i \in Slots :
        LET s == inv[i] IN
        (s.op \in ReportOps /\ Done(s) /\ ~Interrupted(s))
        => (s.pc = "returned" /\ s.result = PyNone /\ s.raised = "none")

\* report(None, ...): tag composition failed and the call returned
C2_Witness ==
    \E i \in Slots :
        /\ inv[i].op = "report" /\ inv[i].arg = "NONE" /\ inv[i].pc = "returned"
        /\ TagCompositionFails(inv[i]) /\ inv[i].absorbed = "AttributeError"

(* C3: a cache lookup made while the token is empty, or with options.cache false *)
(* or absent, returns None and issues no remote call; a remote call is issued    *)
(* only when the token was non-empty and options.cache true at the call.         *)
C3_NoRemoteCallUnlessEnabled ==
    \A i \in Slots :
        LET s == inv[i] IN
        (s.op \in CacheOps) =>
            /\ (s.tokenAtCall = "" \/ (s.arg # "NONE" /\ ~CacheIsTrue(s.arg)))
                  => (s.pc = "returned" /\ s.result = PyNone /\ s.remoteCalls = 0)
            /\ s.remoteCalls > 0 => (s.tokenAtCall # "" /\ CacheIsTrue(s.arg))

\* a lookup with cache true made while the token was empty; the token was set since
C3_Witness ==
    \E i \in Slots :
        /\ inv[i].op \in CacheOps /\ inv[i].pc = "returned"
        /\ inv[i].tokenAtCall = "" /\ CacheIsTrue(inv[i].arg)
        /\ inv[i].remoteCalls = 0 /\ token # ""

\* the response carries no payload: it is absent, or resp_payload is unset, null or empty
NoPayload(payload) ==
    \/ payload = PyNone
    \/ payload.resp_payload \in {PyUnset, PyNone, PyDict(EmptyDict)}

(* C4: after a successful remote check_cache call the result is None when the    *)
(* response is absent or its resp_payload empty or absent, and otherwise the     *)
(* resp_payload with every key kept and openpipe set to {cache_status: HIT}.     *)
C4_CacheResult ==
    \A i \in Slots :
        LET s == inv[i]
            payload == s.outcome.payload
        IN
        (s.op \in CacheOps /\ Done(s) /\ s.remoteCalls > 0 /\ s.outcome.exc = "none") =>
            /\ NoPayload(payload) => (s.pc = "returned" /\ s.result = PyNone)
            /\ (~NoPayload(payload) /\ payload.resp_payload.t = "dict") =>
                  /\ s.pc = "returned" /\ s.result.t = "dict"
                  /\ DOMAIN s.result.d = DOMAIN payload.resp_payload.d \cup {"openpipe"}
                  /\ s.result.d["openpipe"] = CacheHit
                  /\ \A k \in DOMAIN payload.resp_payload.d \ {"openpipe"} :
                        s.result.d[k] = payload.resp_payload.d[k]

\* resp_payload {foo: bar} came back as {foo: bar, openpipe: {cache_status: HIT}}
C4_Witness ==
    \E i \in Slots :
        /\ inv[i].op = "maybe_check_cache" /\ inv[i].pc = "returned"
        /\ inv[i].outcome.payload = CheckCacheResponse200(PyDict(("foo" :> PyStr("bar"))))
        /\ inv[i].result = PyDict(("foo" :> PyStr("bar")) @@ ("openpipe" :> CacheHit))

(* C5: for every options mapping whose tags are absent, null, empty or a         *)
(* mapping, the composed tags hold $sdk = the SDK's name and $sdk.version = its  *)
(* version, keep every other key of the caller with its value and hold nothing   *)
(* else; with no tags they are exactly the two reserved keys.                    *)
C5_ComposedTags ==
    \A i \in Slots :
        LET s == inv[i] IN
        (s.composed /\ TagsWellFormed(s.arg)) =>
            /\ s.tagsOut # PyNone
            /\ LET out == s.tagsOut.additional_properties IN
               /\ DOMAIN out = DOMAIN s.tagsIn \cup ReservedKeys
               /\ out["$sdk"] = PyStr(SdkName)
               /\ out["$sdk.version"] = PyStr(version)
               /\ \A k \in DOMAIN s.tagsIn \ ReservedKeys : out[k] = s.tagsIn[k]
               /\ TagsEntry(s.arg) = PyNone => DOMAIN out = ReservedKeys

\* the caller's tags held $sdk = spoof, and the composed tags hold the SDK's name
C5_Witness ==
    \E i \in Slots :
        /\ inv[i].composed /\ inv[i].arg = "oCacheSpoof"
        /\ inv[i].tagsIn = ("$sdk" :> PyStr("spoof")) @@ ("env" :> PyStr("prod"))
        /\ inv[i].tagsOut.additional_properties["$sdk"] = PyStr(SdkName)
        /\ inv[i].tagsOut.additional_properties["env"] = PyStr("prod")

(* C6: for each model class and every instance x, from_dict(to_dict(x)) is x,    *)
(* field by field; a description left unset is absent from to_dict(x) and unset  *)
(* after the round trip.                                                         *)
C6_RoundTrip ==
    /\ (model.pc = "decoded" /\ model.instance # PyNone) =>
          (model.decoded.exc = "none" /\ model.decoded.value = model.instance)
    /\ (/\ model.pc \in {"encoded", "decoded"} /\ model.cls = "FunctionsItem"
        /\ model.instance # PyNone /\ model.instance.description = PyUnset) =>
          /\ "description" \notin DOMAIN model.mapping
          /\ model.pc = "decoded" => model.decoded.value.description = PyUnset

\* a function definition without description went through to_dict and from_dict
C6_Witness ==
    /\ model.pc = "decoded" /\ model.cls = "FunctionsItem"
    /\ model.instance # PyNone /\ model.instance.description = PyUnset
    /\ DOMAIN model.mapping = {"name", "parameters"}
    /\ model.decoded.value = model.instance

\* the two variants of an operation
SameOperation(a, b) == {a, b} \in {CacheOps, ReportOps}

SameInputs(s, t) ==
    /\ s.arg = t.arg /\ s.kwargs = t.kwargs /\ s.tokenAtCall = t.tokenAtCall
    /\ s.outcome = t.outcome

SameOutputs(s, t) ==
    /\ s.pc = t.pc /\ s.result = t.result /\ s.raised = t.raised
    /\ s.absorbed = t.absorbed /\ s.remoteCalls = t.remoteCalls /\ s.tagsOut = t.tagsOut

(* C7: the blocking and the suspending variant of an operation, called with the  *)
(* same options, arguments and token and meeting the same behaviour of the       *)
(* remote call, end the same way: the same result, the same remote call and its  *)
(* tags, the same failure absorbed.                                              *)
C7_VariantsAgree ==
    \A i, j \in Slots :
        (/\ Done(inv[i]) /\ Done(inv[j])
         /\ inv[i].op # inv[j].op /\ SameOperation(inv[i].op, inv[j].op)
         /\ SameInputs(inv[i], inv[j]))
        => SameOutputs(inv[i], inv[j])

\* both variants of the lookup met a failing remote call and returned None
C7_Witness ==
    \E i, j \in Slots :
        /\ inv[i].op = "maybe_check_cache" /\ inv[j].op = "maybe_check_cache_async"
        /\ Done(inv[i]) /\ Done(inv[j]) /\ SameInputs(inv[i], inv[j])
        /\ inv[i].outcome.exc = "ConnectError" /\ inv[i].remoteCalls = 1
        /\ inv[j].pc = "returned" /\ inv[j].result = PyNone

\* what a mapping lacks of the keys from_dict pops without a default
RequiredKeys(cls) == ClassKeys(cls) \ {"description"}

(* C8: from_dict of a mapping that lacks a required key fails with MissingField  *)
(* (the KeyError of d.pop) naming a missing key, and yields no instance; a       *)
(* function definition without description, its other keys present, decodes.     *)
C8_MissingField ==
    (model.pc = "decoded") =>
        LET missing == RequiredKeys(model.cls) \ DOMAIN model.mapping IN
        /\ (/\ missing # {}
            /\ ~(model.cls = "ContentType1ItemType0" /\ "type" \in DOMAIN model.mapping
                 /\ model.mapping["type"].s \notin TypeValues))
              => /\ model.decoded.exc = MissingField
                 /\ model.decoded.key \in missing
                 /\ model.decoded.value = PyNone
        /\ (model.cls = "FunctionsItem" /\ missing = {}) => model.decoded.exc = "none"

\* a function definition without parameters was decoded
C8_Witness ==
    /\ model.pc = "decoded" /\ model.cls = "FunctionsItem"
    /\ DOMAIN model.mapping = {"name", "description"}
    /\ model.decoded = DecodeError(MissingField, "parameters")

\* the invocation as it ends when nothing else has run: its own arguments, the
\* token it read and the end of its own remote call, from the initial mappings
Alone(s) ==
    LET o == BindOptions(s.arg)
        e == [IdleSlot EXCEPT !.op = s.op, !.arg = s.arg, !.kwargs = s.kwargs,
                              !.tagsIn = s.tagsIn]
        c == CASE s.op = "maybe_check_cache" ->
                      maybe_check_cache_call(e, InitHeap, s.tokenAtCall, o).slot
               [] s.op = "maybe_check_cache_async" ->
                      maybe_check_cache_async_call(e, InitHeap, s.tokenAtCall, o).slot
               [] s.op = "report" -> report_call(e, InitHeap, o, s.kwargs).slot
               [] s.op = "report_async" -> report_async_call(e, InitHeap, o, s.kwargs).slot
        w == [c EXCEPT !.outcome = s.outcome]
    IN  IF c.pc # "awaiting" \/ s.pc = "awaiting" THEN c
        ELSE CASE s.op = "maybe_check_cache" -> maybe_check_cache_return(w, s.outcome)
               [] s.op = "maybe_check_cache_async" -> maybe_check_cache_async_return(w, s.outcome)
               [] s.op = "report" -> report_return(w, s.outcome)
               [] s.op = "report_async" -> report_async_return(w, s.outcome)

(* C9: an invocation issues at most one remote call, also when the call fails,   *)
(* and under every interleaving it ends as it would alone: two invocations of    *)
(* the same operation with the same inputs end alike, whatever the other ones    *)
(* did in between.                                                               *)
C9_NoRetryNoCoupling ==
    /\ \A i \in Slots : inv[i].remoteCalls <= 1
    /\ \A i \in Slots : inv[i].pc # "idle" => inv[i] = Alone(inv[i])
    /\ \A i, j \in Slots :
          (/\ Done(inv[i]) /\ Done(inv[j]) /\ inv[i].op = inv[j].op
           /\ SameInputs(inv[i], inv[j]))
          => SameOutputs(inv[i], inv[j])

\* a report whose remote call failed has ended, after one remote call, while a
\* lookup on the same tags is still waiting for its own
C9_Witness ==
    \E i, j \in Slots :
        /\ inv[i].op = "report" /\ inv[i].pc = "returned"
        /\ inv[i].absorbed = "ConnectError" /\ inv[i].remoteCalls = 1
        /\ inv[j].op = "maybe_check_cache_async" /\ inv[j].pc = "awaiting"
        /\ inv[i].arg = "oCacheSpoof" /\ inv[j].arg = "oCacheSpoof"

(* C10: tag composition on a non-empty tags mapping of the caller writes the two *)
(* reserved keys into that mapping, whether the call then succeeds or its        *)
(* failure is absorbed, and changes nothing else of it; an empty tags mapping,   *)
(* every options mapping and the two default mappings are never changed.         *)
C10_CallerData ==
    /\ \A i \in Slots :
          LET s == inv[i] IN
          (s.composed /\ s.tagsIn # EmptyDict) =>
              LET written == heap[TagsEntry(s.arg).id] IN
              /\ written["$sdk"] = PyStr(SdkName)
              /\ written["$sdk.version"] = PyStr(version)
              /\ DOMAIN written = DOMAIN s.tagsIn \cup ReservedKeys
              /\ \A k \in DOMAIN s.tagsIn \ ReservedKeys : written[k] = s.tagsIn[k]
    /\ \A o \in OptionObjs : heap[o] = InitHeap[o]
    /\ heap["tEmpty"] = EmptyDict
    /\ heap["defaultOptions"] = EmptyDict
    /\ heap["defaultReqPayload"] = EmptyDict

\* a report whose body could not be built was absorbed, and the caller's tags
\* hold the reserved keys
C10_Witness ==
    \E i \in Slots :
        /\ inv[i].op = "report" /\ inv[i].arg = "oCacheEnv" /\ inv[i].pc = "returned"
        /\ inv[i].absorbed = "TypeError" /\ inv[i].remoteCalls = 0
        /\ heap["tEnv"] = ("env" :> PyStr("prod")) @@ ("$sdk" :> PyStr(SdkName))
                          @@ ("$sdk.version" :> PyStr(version))

====
